---------------------------- MODULE Spec2Model ----------------------------
(***************************************************************************)
(* heimdall-errors: the five macros of src/lib.rs that generate From<T>    *)
(* implementations, the three example programs (enum_error_v1,             *)
(* struct_error_v1, struct_error_v2) that instantiate them and propagate   *)
(* failures from foo/bar to main with `?`, and direct use of the example   *)
(* types' public API (From::from, StructError::new, the accessors and      *)
(* Display).                                                               *)
(*                                                                         *)
(* Representation.  Option<X> is a sequence of length 0 (None) or 1        *)
(* (Some).  A kind tag is a sequence: <<K>> for a unit variant and         *)
(* <<K, sub>> for a variant constructor applied to a sub-category.         *)
(***************************************************************************)
EXTENDS Naturals, Sequences, FiniteSets

VARIABLES
    program,   \* which program (example or doc-test instantiation) is running
    pc,        \* control location
    fn,        \* the example function main is currently calling
    opres,     \* Option<Result>: what the lower-level operation returned
    ret,       \* Option<Result<(), E>>: what foo/bar returned to main
    err,       \* Option<E>: the normalized error the top-level caller holds
    origin,    \* Option<T>: the lower-level failure `err` was converted from
    out,       \* Option: the last accessor / Display call and what it returned
    stdout,    \* lines printed by println!
    nops,      \* lower-level operations invoked since the current call began
    nconv,     \* conversions performed since the current call began
    ncalls     \* constructor calls made through the public API

vars == <<program, pc, fn, opres, ret, err, origin, out, stdout, nops, nconv, ncalls>>

\* Direct constructor calls explored per run.
MaxCalls == 2

None == <<>>
Some(x) == <<x>>

---------------------------------------------------------------------------
(* Lower-level failure values.                                             *)

\* Rendered texts a custom io::Error may carry.
CustomMessages == {"", "boom", "No such file or directory (os error 2)"}

\* Values of std::io::Error: OS errors, bare kinds, constant-message errors
\* and custom errors built with io::Error::new(kind, msg).
IoErrors ==
    { [type |-> "io::Error", repr |-> "Os", code |-> c] : c \in {2, 13} }
    \cup { [type |-> "io::Error", repr |-> "Simple", kind |-> k] : k \in {"NotFound", "Other"} }
    \cup { [type |-> "io::Error", repr |-> "SimpleMessage", kind |-> "InvalidData",
            msg |-> "stream did not contain valid UTF-8"] }
    \cup { [type |-> "io::Error", repr |-> "Custom", kind |-> k, msg |-> m] :
             k \in {"NotFound", "Other"}, m \in CustomMessages }

\* Values of std::env::VarError.
VarErrors ==
    { [type |-> "VarError", variant |-> "NotPresent"] }
    \cup { [type |-> "VarError", variant |-> "NotUnicode", os |-> s] : s \in {"fo\\x80o"} }

Failures == IoErrors \cup VarErrors

\* What fs::read_to_string can fail with.
FsErrors == { e \in IoErrors : e.repr \in {"Os", "SimpleMessage"} }

\* What env::var can fail with.
VarLookupErrors == VarErrors

TypeOf(e) == e.type

\* strerror text and decimal rendering of an OS error code.
OsText(code) ==
    CASE code = 2 -> "No such file or directory (os error 2)"
      [] code = 13 -> "Permission denied (os error 13)"
      [] OTHER -> "Unknown error"

\* io::ErrorKind's description, the Display text of a bare kind.
KindDescription(k) ==
    CASE k = "NotFound" -> "entity not found"
      [] k = "PermissionDenied" -> "permission denied"
      [] k = "InvalidData" -> "invalid data"
      [] k = "Other" -> "other error"
      [] OTHER -> "uncategorized error"

\* error.kind(): the sub-category of an io::Error.
io_kind(e) ==
    IF e.repr = "Os"
    THEN CASE e.code = 2 -> "NotFound"
           [] e.code = 13 -> "PermissionDenied"
           [] OTHER -> "Uncategorized"
    ELSE e.kind

\* error.to_string(): the Display rendering of a lower-level failure.
to_string(e) ==
    IF e.type = "io::Error"
    THEN CASE e.repr = "Os" -> OsText(e.code)
           [] e.repr = "Simple" -> KindDescription(e.kind)
           [] OTHER -> e.msg
    ELSE IF e.variant = "NotPresent"
         THEN "environment variable not found"
         ELSE "environment variable was not valid unicode: \"" \o e.os \o "\""

---------------------------------------------------------------------------
(* The macros of src/lib.rs: each is the body of the generated from().     *)

\* implement_error! with the tag hard-coded instead of taken from $kind.
implement_error_fixed_kind(kind, error) ==
    [kind |-> <<"Var">>, message |-> to_string(error)]

\* implement_error!: tag as declared, message rendered, failure dropped.
implement_error(kind, error) ==
    [kind |-> <<kind>>, message |-> to_string(error)]

\* implement_error_with_kind! that forgets the sub-category.
implement_error_with_kind_unrefined(kind, error) ==
    [kind |-> <<kind>>, message |-> to_string(error)]

\* implement_error_with_kind! that renders the kind instead of the failure.
implement_error_with_kind_kind_text(kind, error) ==
    [kind |-> <<kind, io_kind(error)>>, message |-> KindDescription(io_kind(error))]

\* implement_error_with_kind!: the tag constructor applied to error.kind().
implement_error_with_kind(kind, error) ==
    [kind |-> <<kind, io_kind(error)>>, message |-> to_string(error)]

\* implement_error_in_enum! that produces another variant of the enum.
implement_error_in_enum_other_variant(enum_variant, error) ==
    [variant |-> "Other", payload |-> error]

\* implement_error_in_enum!: the variant wrapping the failure itself.
implement_error_in_enum(enum_variant, error) ==
    [variant |-> enum_variant, payload |-> error]

\* implement_string_error_in_enum! that prefixes the text with the failure's kind.
implement_string_error_in_enum_with_kind_text(enum_variant, error) ==
    [variant |-> enum_variant,
     payload |-> KindDescription(io_kind(error)) \o ": " \o to_string(error)]

\* implement_string_error_in_enum!: the variant wrapping the rendered text.
implement_string_error_in_enum(enum_variant, error) ==
    [variant |-> enum_variant, payload |-> to_string(error)]

\* implement_in_error_in_struct! that drops the failure instead of boxing it.
implement_in_error_in_struct_no_source(kind, err_) ==
    [kind |-> <<kind>>, message |-> to_string(err_), source |-> None]

\* implement_in_error_in_struct! that leaves the message empty.
implement_in_error_in_struct_blank(kind, err_) ==
    [kind |-> <<kind>>, message |-> "", source |-> Some(err_)]

\* implement_in_error_in_struct!: tag, rendered message, failure boxed as source.
implement_in_error_in_struct(kind, err_) ==
    [kind |-> <<kind>>, message |-> to_string(err_), source |-> Some(err_)]

StructMacros == {"implement_error", "implement_error_with_kind", "implement_in_error_in_struct"}
EnumMacros == {"implement_error_in_enum", "implement_string_error_in_enum"}

---------------------------------------------------------------------------
(* The programs: the three examples, and the instantiations of the doc     *)
(* tests of src/lib.rs.                                                    *)

Examples == {"enum_error_v1", "struct_error_v1", "struct_error_v2"}

DocTests == {"doc_implement_error", "doc_implement_error_with_kind",
             "doc_implement_error_in_enum", "doc_implement_string_error_in_enum",
             "doc_implement_in_error_in_struct"}

Programs == Examples \cup DocTests

\* The macro invocations of each program: (program, T) -> macro and third argument.
Rules ==
    { [program |-> "enum_error_v1", from |-> "io::Error",
       macro |-> "implement_string_error_in_enum", kind |-> "IO"],
      [program |-> "enum_error_v1", from |-> "VarError",
       macro |-> "implement_error_in_enum", kind |-> "Var"],
      [program |-> "struct_error_v1", from |-> "io::Error",
       macro |-> "implement_in_error_in_struct", kind |-> "IO"],
      [program |-> "struct_error_v1", from |-> "VarError",
       macro |-> "implement_in_error_in_struct", kind |-> "Var"],
      [program |-> "struct_error_v2", from |-> "io::Error",
       macro |-> "implement_error_with_kind", kind |-> "IO"],
      [program |-> "struct_error_v2", from |-> "VarError",
       macro |-> "implement_error", kind |-> "Var"],
      [program |-> "doc_implement_error", from |-> "io::Error",
       macro |-> "implement_error", kind |-> "Io"],
      [program |-> "doc_implement_error", from |-> "VarError",
       macro |-> "implement_error", kind |-> "Env"],
      [program |-> "doc_implement_error_with_kind", from |-> "io::Error",
       macro |-> "implement_error_with_kind", kind |-> "Io"],
      [program |-> "doc_implement_error_in_enum", from |-> "io::Error",
       macro |-> "implement_error_in_enum", kind |-> "Io"],
      [program |-> "doc_implement_string_error_in_enum", from |-> "io::Error",
       macro |-> "implement_string_error_in_enum", kind |-> "Io"],
      [program |-> "doc_implement_in_error_in_struct", from |-> "io::Error",
       macro |-> "implement_in_error_in_struct", kind |-> "IO"] }

\* Whether program p has a From<t> implementation.
HasRule(p, t) == \E r \in Rules : r.program = p /\ r.from = t

\* The macro invocation that generated From<t> for program p.
Rule(p, t) == CHOOSE r \in Rules : r.program = p /\ r.from = t

\* <E as From<T>>::from(e) in program p.
From(p, e) ==
    LET r == Rule(p, TypeOf(e)) IN
    CASE r.macro = "implement_error" -> implement_error(r.kind, e)
      [] r.macro = "implement_error_with_kind" -> implement_error_with_kind(r.kind, e)
      [] r.macro = "implement_error_in_enum" -> implement_error_in_enum(r.kind, e)
      [] r.macro = "implement_string_error_in_enum" -> implement_string_error_in_enum(r.kind, e)
      [] OTHER -> implement_in_error_in_struct(r.kind, e)

---------------------------------------------------------------------------
(* The example types' public API.                                          *)

\* Kind tags of the example struct types.
ErrorKinds(p) ==
    IF p = "struct_error_v1"
    THEN {<<"IO">>, <<"Var">>}
    ELSE {<<"Var">>} \cup { <<"IO", k>> : k \in {"NotFound", "Other"} }

\* Messages a caller of StructError::new may pass.
NewMessages == {"", "boom"}

\* struct_error_v1's StructError::new(kind, message, source).
StructError_new_v1(kind, message, source) ==
    [kind |-> kind, message |-> message, source |-> source]

\* struct_error_v2's StructError::new(kind, message).
StructError_new_v2(kind, message) ==
    [kind |-> kind, message |-> message]

\* StructError::kind(&self).
kind_of(self) == self.kind

\* StructError::message(&self).
message_of(self) == self.message

\* struct_error_v1's StructError::source(&self): self.source.as_ref().
source_of(self) == self.source

\* Display for StructError: the message.
StructError_fmt(self) == self.message

\* Display for EnumError: the payload's own rendering.
EnumError_fmt(self) ==
    CASE self.variant = "Other" -> "Unknown error"
      [] self.variant = "IO" -> self.payload
      [] OTHER -> to_string(self.payload)

\* derive(PartialEq) on EnumError: same variant, equal payloads.
EnumError_eq(a, b) == a.variant = b.variant /\ a.payload = b.payload

IsStructProgram(p) == \A r \in Rules : r.program = p => r.macro \in StructMacros
IsEnumProgram(p) == ~IsStructProgram(p)

---------------------------------------------------------------------------
(* Results.                                                                *)

Ok(v) == [ok |-> TRUE, val |-> v]
Err(e) == [ok |-> FALSE, err |-> e]
IsErr(r) == r # None /\ ~r[1].ok
IsOk(r) == r # None /\ r[1].ok

\* The record of a method call's return value.
Returned(call, value) == Some([call |-> call, value |-> value])

\* What the lower-level operation of foo (fs::read_to_string) or bar (env::var)
\* may return.
OpResults(f) ==
    IF f = "foo"
    THEN {Ok("file content")} \cup { Err(e) : e \in FsErrors }
    ELSE {Ok("value")} \cup { Err(e) : e \in VarLookupErrors }

\* The right-hand side of main's assertion on the error returned by f.
Expected(p, f) ==
    CASE p = "enum_error_v1" /\ f = "foo" ->
            [variant |-> "IO", payload |-> "No such file or directory (os error 2)"]
      [] p = "enum_error_v1" /\ f = "bar" ->
            [variant |-> "Var", payload |-> [type |-> "VarError", variant |-> "NotPresent"]]
      [] p = "struct_error_v1" /\ f = "foo" -> <<"IO">>
      [] p = "struct_error_v1" /\ f = "bar" -> <<"Var">>
      [] p = "struct_error_v2" /\ f = "foo" -> <<"IO", "NotFound">>
      [] OTHER -> <<"Var">>

\* Whether main's assert_eq! on the error e returned by f passes.
AssertHolds(p, f, e) ==
    IF p = "enum_error_v1"
    THEN EnumError_eq(e, Expected(p, f))
    ELSE kind_of(e) = Expected(p, f)

---------------------------------------------------------------------------
(* The example programs: main calls foo, then bar.                         *)

Init ==
    /\ program \in Programs
    /\ pc = "start"
    /\ fn = "none"
    /\ opres = None
    /\ ret = None
    /\ err = None
    /\ origin = None
    /\ out = None
    /\ stdout = <<>>
    /\ nops = 0
    /\ nconv = 0
    /\ ncalls = 0

\* main calls f: foo first, bar after the assertion on foo's error passed.
Call(f) ==
    /\ program \in Examples
    /\ \/ pc = "start" /\ f = "foo"
       \/ pc = "asserted" /\ fn = "foo" /\ f = "bar"
    /\ pc' = "op"
    /\ fn' = f
    /\ opres' = None
    /\ ret' = None
    /\ nops' = 0
    /\ nconv' = 0
    /\ UNCHANGED <<program, err, origin, out, stdout, ncalls>>

\* fs::read_to_string(path) in foo, var("INEXIST_ENV_VAR") in bar.
LowLevelOp(r) ==
    /\ pc = "op"
    /\ r \in OpResults(fn)
    /\ opres' = Some(r)
    /\ nops' = nops + 1
    /\ pc' = "try"
    /\ UNCHANGED <<program, fn, ret, err, origin, out, stdout, nconv, ncalls>>

\* A `?` that invokes the failed operation once more before giving up.
Try_retry ==
    /\ pc = "try"
    /\ IF IsErr(opres)
       THEN IF nops < 2
            THEN /\ pc' = "op"
                 /\ UNCHANGED <<ret, nconv>>
            ELSE /\ ret' = Some(Err(From(program, opres[1].err)))
                 /\ nconv' = nconv + 1
                 /\ pc' = "returned"
       ELSE /\ pc' = "println"
            /\ UNCHANGED <<ret, nconv>>
    /\ UNCHANGED <<program, fn, opres, err, origin, out, stdout, nops, ncalls>>

\* The `?` operator: on Err(e) return Err(From::from(e)) from the function,
\* on Ok(v) go on with v.
Try ==
    /\ pc = "try"
    /\ IF IsErr(opres)
       THEN /\ ret' = Some(Err(From(program, opres[1].err)))
            /\ nconv' = nconv + 1
            /\ pc' = "returned"
       ELSE /\ pc' = "println"
            /\ UNCHANGED <<ret, nconv>>
    /\ UNCHANGED <<program, fn, opres, err, origin, out, stdout, nops, ncalls>>

\* println!("{content}") / println!("{value}").
Println ==
    /\ pc = "println"
    /\ stdout' = Append(stdout, opres[1].val)
    /\ pc' = "ok"
    /\ UNCHANGED <<program, fn, opres, ret, err, origin, out, nops, nconv, ncalls>>

\* The function's final Ok(()).
ReturnOk ==
    /\ pc = "ok"
    /\ ret' = Some(Ok("()"))
    /\ pc' = "returned"
    /\ UNCHANGED <<program, fn, opres, err, origin, out, stdout, nops, nconv, ncalls>>

\* let err = f().unwrap_err(): binds the error, panics on Ok.
UnwrapErr ==
    /\ pc = "returned"
    /\ IF IsErr(ret)
       THEN /\ err' = Some(ret[1].err)
            /\ origin' = Some(opres[1].err)
            /\ pc' = "unwrapped"
       ELSE /\ pc' = "panicked"
            /\ UNCHANGED <<err, origin>>
    /\ UNCHANGED <<program, fn, opres, ret, out, stdout, nops, nconv, ncalls>>

\* main's assert_eq! on err (through kind() in the struct examples).
AssertEq ==
    /\ pc = "unwrapped"
    /\ pc' = IF AssertHolds(program, fn, err[1])
             THEN (IF fn = "bar" THEN "done" ELSE "asserted")
             ELSE "panicked"
    /\ out' = IF program = "enum_error_v1" THEN out ELSE Returned("kind", kind_of(err[1]))
    /\ UNCHANGED <<program, fn, opres, ret, err, origin, stdout, nops, nconv, ncalls>>

---------------------------------------------------------------------------
(* Direct use of the public API of the programs' error types.              *)

\* E::from(e) called directly with any value of a type E converts from.
ApiFrom(e) ==
    /\ pc \in {"start", "api"}
    /\ ncalls < MaxCalls
    /\ HasRule(program, TypeOf(e))
    /\ err' = Some(From(program, e))
    /\ origin' = Some(e)
    /\ ncalls' = ncalls + 1
    /\ pc' = "api"
    /\ UNCHANGED <<program, fn, opres, ret, out, stdout, nops, nconv>>

\* StructError::new called directly.
ApiNew(kind, message, source) ==
    /\ pc \in {"start", "api"}
    /\ ncalls < MaxCalls
    /\ program \in {"struct_error_v1", "struct_error_v2"}
    /\ kind \in ErrorKinds(program)
    /\ program = "struct_error_v2" => source = None
    /\ err' = IF program = "struct_error_v1"
              THEN Some(StructError_new_v1(kind, message, source))
              ELSE Some(StructError_new_v2(kind, message))
    /\ origin' = None
    /\ ncalls' = ncalls + 1
    /\ pc' = "api"
    /\ UNCHANGED <<program, fn, opres, ret, out, stdout, nops, nconv>>

\* err.kind()
CallKind ==
    /\ pc = "api" /\ err # None
    /\ program \in {"struct_error_v1", "struct_error_v2"}
    /\ out' = Returned("kind", kind_of(err[1]))
    /\ UNCHANGED <<program, pc, fn, opres, ret, err, origin, stdout, nops, nconv, ncalls>>

\* err.message()
CallMessage ==
    /\ pc = "api" /\ err # None
    /\ program \in {"struct_error_v1", "struct_error_v2"}
    /\ out' = Returned("message", message_of(err[1]))
    /\ UNCHANGED <<program, pc, fn, opres, ret, err, origin, stdout, nops, nconv, ncalls>>

\* A source() that takes the cause out of the error (self.source.take()).
CallSource_take ==
    /\ pc = "api" /\ err # None
    /\ program = "struct_error_v1"
    /\ out' = Returned("source", source_of(err[1]))
    /\ err' = Some([err[1] EXCEPT !.source = None])
    /\ UNCHANGED <<program, pc, fn, opres, ret, origin, stdout, nops, nconv, ncalls>>

\* err.source()
CallSource ==
    /\ pc = "api" /\ err # None
    /\ program = "struct_error_v1"
    /\ out' = Returned("source", source_of(err[1]))
    /\ UNCHANGED <<program, pc, fn, opres, ret, err, origin, stdout, nops, nconv, ncalls>>

\* err.to_string() through the type's Display implementation.
CallDisplay ==
    /\ pc = "api" /\ err # None
    /\ program \in Examples
    /\ out' = IF program = "enum_error_v1"
              THEN Returned("fmt", EnumError_fmt(err[1]))
              ELSE Returned("fmt", StructError_fmt(err[1]))
    /\ UNCHANGED <<program, pc, fn, opres, ret, err, origin, stdout, nops, nconv, ncalls>>

Next ==
    \/ \E f \in {"foo", "bar"} : Call(f)
    \/ \E r \in OpResults("foo") \cup OpResults("bar") : LowLevelOp(r)
    \/ Try
    \/ Println
    \/ ReturnOk
    \/ UnwrapErr
    \/ AssertEq
    \/ \E e \in Failures : ApiFrom(e)
    \/ \E k \in ErrorKinds("struct_error_v1") \cup ErrorKinds("struct_error_v2"),
          m \in NewMessages, s \in {None} \cup { Some(e) : e \in VarErrors } :
          ApiNew(k, m, s)
    \/ CallKind
    \/ CallMessage
    \/ CallSource
    \/ CallDisplay

Spec == Init /\ [][Next]_vars

---------------------------------------------------------------------------
(* Properties.                                                             *)

TypeOK ==
    /\ program \in Programs
    /\ pc \in {"start", "op", "try", "println", "ok", "returned", "unwrapped",
               "asserted", "done", "panicked", "api"}
    /\ fn \in {"none", "foo", "bar"}
    /\ Len(opres) <= 1 /\ Len(ret) <= 1 /\ Len(err) <= 1
    /\ Len(origin) <= 1 /\ Len(out) <= 1
    /\ nops \in 0..2 /\ nconv \in 0..1 /\ ncalls \in 0..MaxCalls

\* `err` holds a value produced by a conversion rule from the failure `origin`.
Converted == err # None /\ origin # None

\* The macro invocation that produced `err`.
AppliedRule == Rule(program, TypeOf(origin[1]))

\* `err` was produced by the macro named m.
ConvertedBy(m) == Converted /\ AppliedRule.macro = m

\* C1: a value produced by implement_error! or implement_in_error_in_struct!
\* carries exactly the declared tag K, whatever the converted failure is.
C1_KindIsDeclaredTag ==
    (ConvertedBy("implement_error") \/ ConvertedBy("implement_in_error_in_struct"))
        => kind_of(err[1]) = <<AppliedRule.kind>>

\* C1 witness: a permission-denied OS error converted by implement_error!
\* got the plain Io tag.
C1_Witness ==
    /\ ConvertedBy("implement_error")
    /\ origin[1] = [type |-> "io::Error", repr |-> "Os", code |-> 13]
    /\ kind_of(err[1]) = <<"Io">>

\* C2: a value produced by implement_error_with_kind! carries K(e.kind()):
\* failures with another sub-category get another tag, and the not-found OS
\* error gets K(NotFound).
C2_KindIsRefinedTag ==
    ConvertedBy("implement_error_with_kind") =>
        /\ kind_of(err[1]) = <<AppliedRule.kind, io_kind(origin[1])>>
        /\ \A e2 \in IoErrors :
              io_kind(e2) # io_kind(origin[1])
                  => kind_of(From(program, e2)) # kind_of(err[1])
        /\ origin[1] = [type |-> "io::Error", repr |-> "Os", code |-> 2]
              => kind_of(err[1]) = <<AppliedRule.kind, "NotFound">>

\* C2 witness: struct_error_v2's main holds the error of the failed file
\* read, tagged IO(NotFound).
C2_Witness ==
    /\ program = "struct_error_v2" /\ pc = "unwrapped" /\ fn = "foo"
    /\ ConvertedBy("implement_error_with_kind")
    /\ kind_of(err[1]) = <<"IO", "NotFound">>

\* C3: the message of a value produced by a struct-producing rule is the
\* rendering of the converted failure, in every state in which the value
\* exists.
C3_MessageIsRendering ==
    (Converted /\ AppliedRule.macro \in StructMacros)
        => message_of(err[1]) = to_string(origin[1])

\* C3 witness: a bare NotFound io::Error converted by
\* implement_error_with_kind! and its message read back.
C3_Witness ==
    /\ ConvertedBy("implement_error_with_kind")
    /\ origin[1] = [type |-> "io::Error", repr |-> "Simple", kind |-> "NotFound"]
    /\ message_of(err[1]) = "entity not found"
    /\ out = Returned("message", "entity not found")

\* C4: a value produced by implement_in_error_in_struct! has a cause, the
\* cause is the converted failure, and the cause renders as the message.
C4_SourceIsOrigin ==
    ConvertedBy("implement_in_error_in_struct") =>
        /\ source_of(err[1]) # None
        /\ source_of(err[1])[1] = origin[1]
        /\ to_string(source_of(err[1])[1]) = message_of(err[1])

\* C4 witness: struct_error_v1's main holds the error of the failed
\* environment lookup, whose cause is VarError::NotPresent.
C4_Witness ==
    /\ program = "struct_error_v1" /\ pc = "unwrapped" /\ fn = "bar"
    /\ Converted
    /\ source_of(err[1]) = Some([type |-> "VarError", variant |-> "NotPresent"])

\* C5: a value produced by implement_error_in_enum! is the declared variant
\* holding the converted failure unchanged.
C5_VariantHoldsFailure ==
    ConvertedBy("implement_error_in_enum") =>
        /\ err[1].variant = AppliedRule.kind
        /\ err[1].payload = origin[1]

\* C5 witness: enum_error_v1's main holds Var(VarError::NotPresent).
C5_Witness ==
    /\ program = "enum_error_v1" /\ pc = "unwrapped" /\ fn = "bar"
    /\ Converted
    /\ err[1] = [variant |-> "Var", payload |-> [type |-> "VarError", variant |-> "NotPresent"]]

\* C6: a value produced by implement_string_error_in_enum! is the declared
\* variant holding the failure's rendered text, so every failure with the
\* same rendered text converts to an equal value.
C6_VariantHoldsText ==
    ConvertedBy("implement_string_error_in_enum") =>
        /\ err[1].variant = AppliedRule.kind
        /\ err[1].payload = to_string(origin[1])
        /\ \A e2 \in IoErrors :
              to_string(e2) = to_string(origin[1])
                  => EnumError_eq(From(program, e2), err[1])

\* C6 witness: enum_error_v1's main holds IO("No such file or directory
\* (os error 2)") from the OS error, and a different failure (a custom
\* error) renders to the same text.
C6_Witness ==
    /\ program = "enum_error_v1" /\ pc = "unwrapped" /\ fn = "foo"
    /\ Converted
    /\ err[1] = [variant |-> "IO", payload |-> "No such file or directory (os error 2)"]
    /\ \E e2 \in IoErrors : e2 # origin[1] /\ to_string(e2) = to_string(origin[1])

\* C7: in foo and bar a failed operation is invoked once, converted once and
\* returned as Err(From(e)) with no later statement executed; main holds
\* that same value; a successful operation is not converted and the
\* function returns Ok.
C7_Propagation ==
    /\ pc \in {"println", "ok"} => IsOk(opres)
    /\ (pc = "returned" /\ IsErr(opres)) =>
           /\ ret = Some(Err(From(program, opres[1].err)))
           /\ nops = 1 /\ nconv = 1 /\ stdout = <<>>
    /\ (pc = "returned" /\ IsOk(opres)) =>
           /\ ret = Some(Ok("()"))
           /\ nops = 1 /\ nconv = 0 /\ stdout = <<opres[1].val>>
    /\ pc \in {"unwrapped", "asserted", "done"} =>
           /\ IsErr(opres)
           /\ err = Some(From(program, opres[1].err))
           /\ ret = Some(Err(err[1]))
           /\ nops = 1 /\ nconv = 1 /\ stdout = <<>>

\* C7 witness: main ran to its end, the error of bar's failed lookup having
\* been converted once and handed to main.
C7_Witness ==
    /\ pc = "done" /\ fn = "bar" /\ IsErr(opres) /\ nconv = 1
    /\ err = Some(From(program, opres[1].err))

\* The declared tag of the rule that converted e in program p, refined by
\* e's sub-category for implement_error_with_kind!.
DeclaredKind(p, e) ==
    IF Rule(p, TypeOf(e)).macro = "implement_error_with_kind"
    THEN <<Rule(p, TypeOf(e)).kind, io_kind(e)>>
    ELSE <<Rule(p, TypeOf(e)).kind>>

\* C9 as stated: every struct error value has a non-empty message and, when
\* it originates from a failure, the kind of that failure's category.
C9_NonEmptyMessage ==
    (err # None /\ IsStructProgram(program)) =>
        /\ message_of(err[1]) # ""
        /\ origin # None => kind_of(err[1]) = DeclaredKind(program, origin[1])

\* C9 amended: a struct error value produced by a conversion rule has the
\* kind declared for its failure, and a non-empty message whenever the
\* failure's rendering is non-empty.
C9_ConvertedInvariant ==
    (Converted /\ IsStructProgram(program)) =>
        /\ kind_of(err[1]) = DeclaredKind(program, origin[1])
        /\ to_string(origin[1]) # "" => message_of(err[1]) # ""

\* C9 witness: struct_error_v1's main holds the error of a file read that
\* failed with permission denied, with its non-empty message.
C9_Witness ==
    /\ program = "struct_error_v1" /\ pc = "unwrapped" /\ fn = "foo"
    /\ Converted
    /\ message_of(err[1]) = "Permission denied (os error 13)"
    /\ kind_of(err[1]) = <<"IO">>

\* C10: kind(), message(), source() and Display leave the error as it was
\* and return the field as it is stored, and unwrap_err hands main the
\* returned error unchanged.
C10_Immutable ==
    [][ /\ (pc = "api" /\ err # None /\ ncalls' = ncalls) =>
            /\ err' = err
            /\ origin' = origin
            /\ out' # None
            /\ out'[1].call = "kind" => out'[1].value = err[1].kind
            /\ out'[1].call = "message" => out'[1].value = err[1].message
            /\ out'[1].call = "source" => out'[1].value = err[1].source
            /\ (out'[1].call = "fmt" /\ IsStructProgram(program))
                   => out'[1].value = err[1].message
        /\ (pc = "returned" /\ pc' = "unwrapped") => err' = Some(ret[1].err)
        /\ (pc = "unwrapped" /\ err # None) => err' = err
      ]_vars

\* C10 witness: source() was called on a struct_error_v1 value that has a
\* cause, and the value still has it.
C10_Witness ==
    /\ pc = "api" /\ program = "struct_error_v1"
    /\ err # None /\ out # None
    /\ out[1].call = "source"
    /\ source_of(err[1]) # None
    /\ out[1].value = source_of(err[1])

===========================================================================
